---------------------------- MODULE Spec2Model ----------------------------
(* A model of cubeviz's background spectral operation                      *)
(* (cubeviz/tools/spectral_operations.py): the dialog                       *)
(* SpectralOperationHandler running in the foreground (GUI) thread, the     *)
(* OperationThread workers it starts, the SimpleProgressTracker each worker *)
(* creates, and the queue of signals the workers post to the foreground;    *)
(* and of the wavelength unit controller (cubeviz/controls/units.py): the   *)
(* UnitController, the host layout it writes to, and its unit conversion.   *)
(*                                                                          *)
(* Strings are sequences of characters; the fixed text                      *)
(* " [Spectrally Smoothed]" is kept as one character of its own.            *)
EXTENDS Integers, Sequences, FiniteSets, TLC

\* ------------------------------------------------------------------ bounds

\* Worker threads (accepted runs) created over one behaviour.
MaxRuns == 2
\* Largest number of spatial elements, shape[1] * shape[2], of the cube.
MaxElems == 2
\* Worker threads created over one behaviour of SoloSpec.
MaxSoloRuns == 1
\* Signals waiting in the foreground's event queue; a worker emits its next
\* signal once fewer than MaxQueue are waiting.
MaxQueue == 3
\* Largest explicit value handed to the tracker in TrackerSpec.
MaxValue == 3
\* Largest total_value of the tracker in TrackerSpec.
MaxTotal == 4
\* Calls made on the tracker in TrackerSpec.
MaxCalls == 4
\* Binary digits of a float's significand.
FloatBits == 4
\* Largest number of elements of a wavelength array.
MaxLen == 2
\* Calls made on the UnitController over one behaviour of UnitSpec.
MaxOps == 3

Threads == 1..MaxRuns

\* ----------------------------------------------------------------- strings

\* An optional argument: <<>> when it is left out (None), <<v>> when v is given.
None == <<>>

Given(v) == <<v>>

SmoothedLabel == " [Spectrally Smoothed]"

X == <<"X">>
AX == <<"A", "X">>

DigitChar == <<"0", "1", "2", "3", "4", "5", "6", "7", "8", "9">>

\* str(n) of a non-negative int, as "{}".format writes it.
RECURSIVE Digits(_)
Digits(n) ==
    IF n < 10 THEN <<DigitChar[n + 1]>>
    ELSE Digits(n \div 10) \o <<DigitChar[(n % 10) + 1]>>

\* "{} [Spectrally Smoothed]".format(component_id)
BaseName(cid) == cid \o <<SmoothedLabel>>

\* "{} {}".format(component_name, comp_count)
Suffixed(name, count) == name \o <<" ">> \o Digits(count)

\* Python's  sub in s  for strings.
Contains(s, sub) ==
    \E i \in 0..(Len(s) - Len(sub)) :
        \A j \in 1..Len(sub) : s[i + j] = sub[j]

\* len([x for x in component_ids if component_name in str(x)])
CompCount(ids, name) == Cardinality({i \in 1..Len(ids) : Contains(ids[i], name)})

\* The name on_finished gives the new component.
ResultName(ids, cid) ==
    LET component_name == BaseName(cid)
        comp_count == CompCount(ids, component_name)
    IN  IF comp_count > 0 THEN Suffixed(component_name, comp_count)
        ELSE component_name

\* ----------------------------------------------------------------- tracker

NoTracker == [current |-> 0, total |-> 0, abort_flag |-> FALSE, exists |-> FALSE]

\* SimpleProgressTracker.__init__
NewTracker(total_value) ==
    [current |-> 0, total |-> total_value, abort_flag |-> FALSE, exists |-> TRUE]

\* Python truth value of the optional argument:  value or ...
Truthy(value) == value # None /\ value[1] # 0

\* SimpleProgressTracker.__call__, the assignment of line 164.
TrackerAdvance(tr, value) ==
    [tr EXCEPT !.current = IF Truthy(value) THEN value[1] ELSE tr.current + 1]

\* The test of line 166 left out: the call never raises.
TrackerNeverRaises(tr) == FALSE

\* The flag looked at only once the count is complete.
TrackerRaisesLate(tr) == tr.abort_flag /\ tr.current + 1 >= tr.total

\* SimpleProgressTracker.__call__, the test of line 166: does the call raise?
TrackerRaises(tr) == tr.abort_flag

\* The quotient taken before the call advanced the tracker.
PercentValueStale(tr) == <<tr.current - 1, tr.total>>

\* SimpleProgressTracker.percent_value, the exact quotient current / total
\* kept as <<numerator, denominator>>.
PercentValue(tr) == <<tr.current, tr.total>>

\* SimpleProgressTracker.abort
TrackerAbort(tr) == [tr EXCEPT !.abort_flag = TRUE]

\* Equality of two quotients.
SameRatio(p, q) == p[1] * q[2] = q[1] * p[2]

\* QProgressBar.setValue(value * 100): the int the bar shows.
BarValue(p) == (p[1] * 100) \div p[2]

\* ------------------------------------------------- floating-point numbers
\* (cubeviz/controls/units.py)
\*
\* A wavelength is a binary floating-point number m * 2^e whose significand
\* m has FloatBits bits, Pow2(FloatBits - 1) <= m < Pow2(FloatBits). The
\* arithmetic rounds to nearest, ties to even, as the arithmetic of numpy's
\* float64 does; FloatBits is a bound of the model in place of 53.

RECURSIVE Pow2(_)
Pow2(n) == IF n = 0 THEN 1 ELSE 2 * Pow2(n - 1)

\* The number of binary digits of n.
RECURSIVE BitLen(_)
BitLen(n) == IF n = 0 THEN 0 ELSE 1 + BitLen(n \div 2)

\* n * 2^e, n > 0, rounded to a float.
RoundFloat(n, e) ==
    LET shift == BitLen(n) - FloatBits
    IN  IF shift <= 0
        THEN [m |-> n * Pow2(-shift), e |-> e + shift]
        ELSE LET q == n \div Pow2(shift)
                 r == n % Pow2(shift)
                 half == Pow2(shift - 1)
                 m == IF r > half \/ (r = half /\ q % 2 = 1) THEN q + 1 ELSE q
             IN  IF m = Pow2(FloatBits)
                 THEN [m |-> Pow2(FloatBits - 1), e |-> e + shift + 1]
                 ELSE [m |-> m, e |-> e + shift]

\* The rounded product of two floats.
FMul(a, b) == RoundFloat(a.m * b.m, a.e + b.e)

\* The rounded quotient of two floats: FloatBits + 2 digits of the quotient
\* and one more digit that says whether anything was left over.
FDiv(a, b) ==
    LET k == FloatBits + 2
        q == (a.m * Pow2(k)) \div b.m
        left == IF (a.m * Pow2(k)) % b.m = 0 THEN 0 ELSE 1
    IN  RoundFloat(2 * q + left, a.e - b.e - k - 1)

\* --------------------------------------------------------------- the units

\* UnitController._units, in the order of the combo box.
Units == <<"m", "cm", "mm", "um", "nm", "AA">>

\* UnitController._units_titles: long_names[0].title() of each unit.
UnitsTitles == <<"Meter", "Centimeter", "Millimeter", "Micrometer",
                 "Nanometer", "Angstrom">>

\* 10^-k, the size of a unit in metres, written out in binary: the leading
\* digits n * 2^e of its expansion, the last digit of n saying whether
\* anything follows them.
TenthPower(k) ==
    CASE k = 0  -> [n |-> 536870912, e |-> -29]
      [] k = 2  -> [n |-> 687194767, e |-> -36]
      [] k = 3  -> [n |-> 549755813, e |-> -39]
      [] k = 6  -> [n |-> 562949953, e |-> -49]
      [] k = 9  -> [n |-> 576460753, e |-> -59]
      [] k = 10 -> [n |-> 922337203, e |-> -63]

\* The power of ten of each unit: 1 cm = 10^-2 m, 1 Angstrom = 10^-10 m.
UnitPower(units) ==
    CASE units = "m"  -> 0
      [] units = "cm" -> 2
      [] units = "mm" -> 3
      [] units = "um" -> 6
      [] units = "nm" -> 9
      [] units = "AA" -> 10

\* The scale of a unit, a float.
UnitScale(units) ==
    RoundFloat(TenthPower(UnitPower(units)).n, TenthPower(UnitPower(units)).e)

\* A factor that takes every value to start in metres, whatever old_units.
ConversionFactorFromMetres(old_units, new_units) ==
    FDiv(UnitScale("m"), UnitScale(new_units))

\* Quantity.to: the factor that takes a value in old_units to new_units is
\* the quotient of the two scales.
ConversionFactor(old_units, new_units) ==
    FDiv(UnitScale(old_units), UnitScale(new_units))

\* ------------------------------------------------------------ wavelengths

\* What a wavelengths attribute holds: None, False, or an array of floats
\* (the empty list the controller starts with is the array without elements).
NoneValue == [kind |-> "None", values |-> <<>>]

FalseValue == [kind |-> "False", values |-> <<>>]

Array(values) == [kind |-> "array", values |-> values]

\* UnitController.convert_wavelengths:
\* ((old_wavelengths * old_units).to(new_units) / new_units), element by
\* element, or False when there are no wavelengths.
ConvertWavelengths(old_wavelengths, old_units, new_units) ==
    IF old_wavelengths.kind # "None"
    THEN Array([i \in 1..Len(old_wavelengths.values) |->
                   FMul(old_wavelengths.values[i],
                        ConversionFactor(old_units, new_units))])
    ELSE FalseValue

\* The position of a title in _units_titles as list.index finds it, counted
\* from 1; 0 when the title is not in the list and list.index raises
\* ValueError. TitleIndexOrLast gives the last position in place of raising.
TitleIndexOrLast(title) ==
    IF \E i \in 1..Len(UnitsTitles) : UnitsTitles[i] = title
    THEN CHOOSE i \in 1..Len(UnitsTitles) :
             /\ UnitsTitles[i] = title
             /\ \A j \in 1..(i - 1) : UnitsTitles[j] # title
    ELSE Len(UnitsTitles)

TitleIndex(title) ==
    IF \E i \in 1..Len(UnitsTitles) : UnitsTitles[i] = title
    THEN CHOOSE i \in 1..Len(UnitsTitles) :
             /\ UnitsTitles[i] = title
             /\ \A j \in 1..(i - 1) : UnitsTitles[j] # title
    ELSE 0

\* The test of the redshift_z setter: new_z is not None and new_z > 0.
\* IsRestOrZero takes 0 for a redshift as well.
IsRestOrZero(new_z) == new_z # None /\ new_z[1] >= 0

IsRest(new_z) == new_z # None /\ new_z[1] > 0

\* The label the redshift_z setter shows for new_z.
LabelFor(new_z) == IF IsRest(new_z) THEN "Rest Wavelength" ELSE "Obs Wavelength"

\* The z of the redshift_changed signal, 0.01, in hundredths.
RedshiftPayload == 1

\* What the host layout last received through set_wavelengths.
NotPushed == [called |-> FALSE, wavelengths |-> NoneValue, units |-> "m"]

\* UnitController.__init__ over a layout whose _wavelengths is wavelengths.
\* The fields after slice_label are history: the calls made on the
\* controller, the arguments of its last on_combobox_change, the redshifts
\* assigned, the signals dispatched, and what the last call raised.
NewController(wavelengths) ==
    [original_wavelengths |-> wavelengths,
     new_wavelengths      |-> Array(<<>>),
     original_units       |-> "m",
     new_units            |-> "m",
     wcs                  |-> "None",
     redshift_z           |-> Given(0),
     label                |-> "wavelength_textbox_label",
     slice_label          |-> "wavelength_label",
     pushed               |-> NotPushed,
     pushes               |-> 0,
     calls                |-> 0,
     titles               |-> <<>>,
     selected_from        |-> NoneValue,
     assigned             |-> <<>>,
     dispatched           |-> <<>>,
     raised               |-> "none"]

\* The controller of a layout that has no wavelengths.
NoController == NewController(NoneValue)

\* A conversion there and back that has not begun.
NoConversion ==
    [w |-> NoneValue, old_units |-> "m", new_units |-> "m",
     there |-> NoneValue, back |-> NoneValue, step |-> 0]



\* ------------------------------------------------------------------- state

VARIABLES
    data,              \* the dataset: the names of its components, in order
    shape,             \* <<shape[1], shape[2]>> of the cube, its spatial extents
    component_id,      \* SpectralOperationHandler.component_id
    combo_count,       \* items of data_component_combo_box
    combo_index,       \* its current index
    operation_thread,  \* SpectralOperationHandler._operation_thread (0: None)
    progress_visible,  \* progress_bar shown
    progress_value,    \* progress_bar value
    abort_enabled,     \* abort_button enabled
    closed,            \* the dialog was accepted (QDialog.accept) and is closed
    fg_exception,      \* what the last foreground handler raised, or "none"
    nthreads,          \* OperationThread objects created so far
    pc,                \* where each worker thread stands
    cube,              \* OperationThread._cube_data: operand and spatial size
    tracker,           \* OperationThread._tracker
    done,              \* spatial elements apply_function has gone through
    queue,             \* signals posted to the foreground, oldest first
    emitted,           \* history: the signals each worker emitted, in order
    late_calls,        \* history: tracker calls begun with the abort flag set
    added_by,          \* history: the component each worker's result became
    runlog,            \* history: at each on_finished, the operand of the run
                       \* and the component_id selected then
    n0,                \* history: components of the dataset at the start
    unit,              \* a tracker called on its own (TrackerSpec)
    uc,                \* the UnitController and what it set on its host
    conv               \* a conversion applied on its own (ConvertSpec)

vars == <<data, shape, component_id, combo_count, combo_index,
          operation_thread, progress_visible, progress_value, abort_enabled,
          closed, fg_exception, nthreads, pc, cube, tracker, done, queue,
          emitted, late_calls, added_by, runlog, n0, unit, uc, conv>>

workers == <<nthreads, pc, cube, tracker, done, emitted, late_calls>>

\* The datasets a dialog is opened on.
InitialDatasets ==
    { <<X>>, <<X, AX>>, <<X, Suffixed(BaseName(X), 1)>> }

\* The spatial extents <<shape[1], shape[2]>> of the cubes operated on.
Shapes == {s \in (1..MaxElems) \X (1..MaxElems) : s[1] * s[2] <= MaxElems}

NoCube == [operand |-> <<>>, total |-> 0]

NoUnit == [tr |-> NoTracker, calls |-> 0, arg |-> None, before |-> 0,
           raised |-> FALSE, plain |-> TRUE]

StatusEvent(t, p) ==
    [kind |-> "status", thread |-> t, num |-> p[1], den |-> p[2], array |-> <<>>]

FinishedEvent(t, operand) ==
    [kind |-> "finished", thread |-> t, num |-> 0, den |-> 0, array |-> operand]

\* SpectralOperationHandler.__init__ on a dataset, before any thread exists.
Init ==
    /\ data \in InitialDatasets
    /\ shape \in Shapes
    /\ component_id = data[1]
    /\ combo_count = Len(data)
    /\ combo_index = 0
    /\ operation_thread = 0
    /\ progress_visible = FALSE
    /\ progress_value = 0
    /\ abort_enabled \in BOOLEAN
    /\ closed = FALSE
    /\ fg_exception = "none"
    /\ nthreads = 0
    /\ pc = [t \in Threads |-> "unborn"]
    /\ cube = [t \in Threads |-> NoCube]
    /\ tracker = [t \in Threads |-> NoTracker]
    /\ done = [t \in Threads |-> 0]
    /\ queue = <<>>
    /\ emitted = [t \in Threads |-> <<>>]
    /\ late_calls = [t \in Threads |-> 0]
    /\ added_by = [t \in Threads |-> <<>>]
    /\ runlog = <<>>
    /\ n0 = Len(data)
    /\ unit = NoUnit
    /\ uc = NoController
    /\ conv = NoConversion

\* ------------------------------------------------------ foreground handlers

\* SpectralOperationHandler.on_index_changed: the user picks another item.
OnIndexChanged(index) ==
    /\ ~closed
    /\ index # combo_index
    /\ combo_index' = index
    /\ component_id' = data[index + 1]
    /\ fg_exception' = "none"
    /\ UNCHANGED <<data, shape, combo_count, operation_thread,
                   progress_visible, progress_value, abort_enabled, closed,
                   workers, queue, added_by, runlog, n0, unit, uc, conv>>

\* SpectralOperationHandler.accept: the user clicks "Okay". A new
\* OperationThread (its _tracker None) is built on the selected component and
\* started; no test is made of a thread already at work.
Accept ==
    /\ ~closed
    /\ nthreads < MaxRuns
    /\ LET t == nthreads + 1 IN
        /\ nthreads' = t
        /\ cube' = [cube EXCEPT ![t] =
                      [operand |-> component_id, total |-> shape[1] * shape[2]]]
        /\ tracker' = [tracker EXCEPT ![t] = NoTracker]
        /\ pc' = [pc EXCEPT ![t] = "started"]
        /\ operation_thread' = t
    /\ progress_visible' = TRUE
    /\ abort_enabled' = TRUE
    /\ fg_exception' = "none"
    /\ UNCHANGED <<data, shape, component_id, combo_count, combo_index,
                   progress_value, closed, done, queue, emitted, late_calls,
                   added_by, runlog, n0, unit, uc, conv>>

\* OperationThread.abort: self._tracker.abort(), an AttributeError while
\* _tracker is still None.
ThreadAbortFails(t) == ~tracker[t].exists

\* SpectralOperationHandler.on_aborted: the user clicks the abort button.
\* Line 103 raises when there is no thread or the thread has no tracker yet,
\* and then lines 104-108 are not run.
OnAborted ==
    /\ ~closed
    /\ abort_enabled
    /\ IF operation_thread = 0 \/ ThreadAbortFails(operation_thread)
       THEN /\ fg_exception' = "AttributeError"
            /\ UNCHANGED <<tracker, progress_value, progress_visible,
                           abort_enabled>>
       ELSE /\ tracker' = [tracker EXCEPT ![operation_thread] =
                             TrackerAbort(tracker[operation_thread])]
            /\ progress_value' = 0
            /\ progress_visible' = FALSE
            /\ abort_enabled' = FALSE
            /\ fg_exception' = "none"
    /\ UNCHANGED <<data, shape, component_id, combo_count, combo_index,
                   operation_thread, closed, nthreads, pc, cube, done, queue,
                   emitted, late_calls, added_by, runlog, n0, unit, uc, conv>>

\* SpectralOperationHandler.on_status_updated, run for the oldest signal.
OnStatusUpdated ==
    /\ queue # <<>>
    /\ Head(queue).kind = "status"
    /\ progress_value' = BarValue(<<Head(queue).num, Head(queue).den>>)
    /\ queue' = Tail(queue)
    /\ fg_exception' = "none"
    /\ UNCHANGED <<data, shape, component_id, combo_count, combo_index,
                   operation_thread, progress_visible, abort_enabled, closed,
                   workers, added_by, runlog, n0, unit, uc, conv>>

\* Data.add_component(data, component_name): one more component, the others
\* kept as they are.
AddComponent(ids, name) == Append(ids, name)

\* SpectralOperationHandler.on_finished, run for the oldest signal: the name
\* is composed from the component selected now, the result is added to the
\* dataset and the dialog is closed.
OnFinished ==
    /\ queue # <<>>
    /\ Head(queue).kind = "finished"
    /\ LET name == ResultName(data, component_id) IN
        /\ data' = AddComponent(data, name)
        /\ added_by' = [added_by EXCEPT ![Head(queue).thread] = name]
    /\ runlog' = Append(runlog, [operand |-> Head(queue).array,
                                  selected |-> component_id])
    /\ closed' = TRUE
    /\ queue' = Tail(queue)
    /\ fg_exception' = "none"
    /\ UNCHANGED <<shape, component_id, combo_count, combo_index,
                   operation_thread, progress_visible, progress_value,
                   abort_enabled, workers, n0, unit, uc, conv>>

AtRest(t) == pc[t] \in {"unborn", "finished", "aborted", "failed"}

\* SpectralOperationHandler.__init__ again: another dialog is opened on the
\* same dataset. The model opens it once the earlier dialog is closed, its
\* threads have ended and their signals have been handled.
Reopen ==
    /\ closed
    /\ nthreads < MaxRuns
    /\ queue = <<>>
    /\ \A t \in Threads : AtRest(t)
    /\ component_id' = data[1]
    /\ combo_count' = Len(data)
    /\ combo_index' = 0
    /\ operation_thread' = 0
    /\ progress_visible' = FALSE
    /\ progress_value' = 0
    /\ abort_enabled' \in BOOLEAN
    /\ closed' = FALSE
    /\ fg_exception' = "none"
    /\ UNCHANGED <<data, shape, workers, queue, added_by, runlog, n0, unit, uc, conv>>

\* ------------------------------------------------------------ worker steps

foreground == <<data, shape, component_id, combo_count, combo_index,
                operation_thread, progress_visible, progress_value,
                abort_enabled, closed, fg_exception, added_by, runlog, n0>>

\* QThread.start() has been called; a worker is Running from then until its
\* run() has returned or been unwound by an exception.
Running(t) == pc[t] \in {"started", "iterate", "emit", "finish", "return"}

\* Where run() stands after the tracker's call or the status signal: at the
\* next element, or past apply_function.
AfterElement(t, n) == IF n < cube[t].total THEN "iterate" ELSE "finish"

\* OperationThread.run, lines 206-207: the tracker is created with
\* total = shape[1] * shape[2], and apply_function is entered.
WorkerRun(t) ==
    /\ pc[t] = "started"
    /\ tracker' = [tracker EXCEPT ![t] = NewTracker(cube[t].total)]
    /\ pc' = [pc EXCEPT ![t] = AfterElement(t, 0)]
    /\ UNCHANGED <<foreground, nthreads, cube, done, queue, emitted,
                   late_calls, unit, uc, conv>>

\* apply_function goes through one spatial element and calls
\* progress_wrapper, which calls the tracker (line 210): the tracker advances,
\* and raises when its abort flag is set, which unwinds run().
WorkerIterate(t) ==
    /\ pc[t] = "iterate"
    /\ done' = [done EXCEPT ![t] = @ + 1]
    /\ tracker' = [tracker EXCEPT ![t] = TrackerAdvance(@, None)]
    /\ late_calls' = [late_calls EXCEPT ![t] =
                        IF tracker[t].abort_flag THEN @ + 1 ELSE @]
    /\ pc' = [pc EXCEPT ![t] =
                IF TrackerRaises(tracker[t]) THEN "aborted" ELSE "emit"]
    /\ UNCHANGED <<foreground, nthreads, cube, queue, emitted, unit, uc, conv>>

\* progress_wrapper, line 211: status.emit(percent_value), posted to the
\* foreground.
WorkerEmitStatus(t) ==
    /\ pc[t] = "emit"
    /\ Len(queue) < MaxQueue
    /\ LET ev == StatusEvent(t, PercentValue(tracker[t])) IN
        /\ queue' = Append(queue, ev)
        /\ emitted' = [emitted EXCEPT ![t] = Append(@, ev)]
    /\ pc' = [pc EXCEPT ![t] = AfterElement(t, done[t])]
    /\ UNCHANGED <<foreground, nthreads, cube, tracker, done, late_calls, unit, uc, conv>>

\* The worker adding its result to the dataset itself.
WorkerMergesResult(t) ==
    /\ pc[t] = "finish"
    /\ data' = AddComponent(data, ResultName(data, component_id))
    /\ pc' = [pc EXCEPT ![t] = "return"]
    /\ UNCHANGED <<shape, component_id, combo_count, combo_index,
                   operation_thread, progress_visible, progress_value,
                   abort_enabled, closed, fg_exception, added_by, runlog, n0,
                   nthreads, cube, tracker, done, queue, emitted, late_calls,
                   unit, uc, conv>>

\* OperationThread.run, line 220: finished.emit(new_data).
WorkerEmitFinished(t) ==
    /\ pc[t] = "finish"
    /\ Len(queue) < MaxQueue
    /\ LET ev == FinishedEvent(t, cube[t].operand) IN
        /\ queue' = Append(queue, ev)
        /\ emitted' = [emitted EXCEPT ![t] = Append(@, ev)]
    /\ pc' = [pc EXCEPT ![t] = "return"]
    /\ UNCHANGED <<foreground, nthreads, cube, tracker, done, late_calls, unit, uc, conv>>

\* run() returns and the thread ends.
WorkerReturn(t) ==
    /\ pc[t] = "return"
    /\ pc' = [pc EXCEPT ![t] = "finished"]
    /\ UNCHANGED <<foreground, nthreads, cube, tracker, done, queue, emitted,
                   late_calls, unit, uc, conv>>

\* The exception of the operation function caught and finished emitted all the
\* same.
WorkerFailEmitsFinished(t) ==
    /\ pc[t] = "iterate"
    /\ Len(queue) < MaxQueue
    /\ LET ev == FinishedEvent(t, cube[t].operand) IN
        /\ queue' = Append(queue, ev)
        /\ emitted' = [emitted EXCEPT ![t] = Append(@, ev)]
    /\ pc' = [pc EXCEPT ![t] = "failed"]
    /\ UNCHANGED <<foreground, nthreads, cube, tracker, done, late_calls, unit, uc, conv>>

\* The operation function raises on an element: the exception leaves
\* apply_function and run(), which has no handler.
WorkerFail(t) ==
    /\ pc[t] = "iterate"
    /\ pc' = [pc EXCEPT ![t] = "failed"]
    /\ UNCHANGED <<foreground, nthreads, cube, tracker, done, queue, emitted,
                   late_calls, unit, uc, conv>>

Next ==
    \/ \E index \in 0..(combo_count - 1) : OnIndexChanged(index)
    \/ Accept
    \/ OnAborted
    \/ OnStatusUpdated
    \/ OnFinished
    \/ Reopen
    \/ \E t \in Threads : WorkerRun(t)
    \/ \E t \in Threads : WorkerIterate(t)
    \/ \E t \in Threads : WorkerEmitStatus(t)
    \/ \E t \in Threads : WorkerEmitFinished(t)
    \/ \E t \in Threads : WorkerReturn(t)
    \/ \E t \in Threads : WorkerFail(t)

Spec == Init /\ [][Next]_vars

\* accept() for as long as fewer than MaxSoloRuns runs were started.
SoloAccept == nthreads < MaxSoloRuns /\ Accept

\* The same steps, with the runs started bounded by MaxSoloRuns.
SoloNext ==
    \/ \E index \in 0..(combo_count - 1) : OnIndexChanged(index)
    \/ SoloAccept
    \/ OnAborted
    \/ OnStatusUpdated
    \/ OnFinished
    \/ Reopen
    \/ \E t \in Threads : WorkerRun(t)
    \/ \E t \in Threads : WorkerIterate(t)
    \/ \E t \in Threads : WorkerEmitStatus(t)
    \/ \E t \in Threads : WorkerEmitFinished(t)
    \/ \E t \in Threads : WorkerReturn(t)
    \/ \E t \in Threads : WorkerFail(t)

SoloSpec == Init /\ [][SoloNext]_vars

\* ------------------------------------------------- the tracker on its own

\* A SimpleProgressTracker(total_value) called directly, with and without an
\* argument. unit.tr is the tracker; the other fields are history: the calls
\* made, the last call's argument, current before it, whether it raised, and
\* whether every call so far was made without an argument.
InitTracker ==
    /\ data = <<X>>
    /\ shape = <<1, 1>>
    /\ component_id = X
    /\ combo_count = 1
    /\ combo_index = 0
    /\ operation_thread = 0
    /\ progress_visible = FALSE
    /\ progress_value = 0
    /\ abort_enabled = FALSE
    /\ closed = FALSE
    /\ fg_exception = "none"
    /\ nthreads = 0
    /\ pc = [t \in Threads |-> "unborn"]
    /\ cube = [t \in Threads |-> NoCube]
    /\ tracker = [t \in Threads |-> NoTracker]
    /\ done = [t \in Threads |-> 0]
    /\ queue = <<>>
    /\ emitted = [t \in Threads |-> <<>>]
    /\ late_calls = [t \in Threads |-> 0]
    /\ added_by = [t \in Threads |-> <<>>]
    /\ runlog = <<>>
    /\ n0 = 1
    /\ \E total_value \in 1..MaxTotal :
         unit = [NoUnit EXCEPT !.tr = NewTracker(total_value)]
    /\ uc = NoController
    /\ conv = NoConversion

\* tracker(value) or tracker(): line 164, then the test of line 166.
UnitCall(value) ==
    /\ unit.calls < MaxCalls
    /\ unit' = [tr |-> TrackerAdvance(unit.tr, value),
                calls |-> unit.calls + 1,
                arg |-> value,
                before |-> unit.tr.current,
                raised |-> TrackerRaises(unit.tr),
                plain |-> unit.plain /\ value = None]
    /\ UNCHANGED <<foreground, workers, queue, uc, conv>>

\* tracker.abort()
UnitAbort ==
    /\ ~unit.tr.abort_flag
    /\ unit' = [unit EXCEPT !.tr = TrackerAbort(@)]
    /\ UNCHANGED <<foreground, workers, queue, uc, conv>>

Arguments == {None} \cup {Given(v) : v \in 0..MaxValue}

NextTracker ==
    \/ \E value \in Arguments : UnitCall(value)
    \/ UnitAbort

TrackerSpec == InitTracker /\ [][NextTracker]_vars

\* -------------------------------------------------- the unit controller
\* (cubeviz/controls/units.py)

\* The dialog left alone: no run was ever started.
IdleDialog ==
    /\ data = <<X>>
    /\ shape = <<1, 1>>
    /\ component_id = X
    /\ combo_count = 1
    /\ combo_index = 0
    /\ operation_thread = 0
    /\ progress_visible = FALSE
    /\ progress_value = 0
    /\ abort_enabled = FALSE
    /\ closed = FALSE
    /\ fg_exception = "none"
    /\ nthreads = 0
    /\ pc = [t \in Threads |-> "unborn"]
    /\ cube = [t \in Threads |-> NoCube]
    /\ tracker = [t \in Threads |-> NoTracker]
    /\ done = [t \in Threads |-> 0]
    /\ queue = <<>>
    /\ emitted = [t \in Threads |-> <<>>]
    /\ late_calls = [t \in Threads |-> 0]
    /\ added_by = [t \in Threads |-> <<>>]
    /\ runlog = <<>>
    /\ n0 = 1
    /\ unit = NoUnit

\* The floats with exponent 0, one for every significand.
Floats == { [m |-> m, e |-> 0] : m \in Pow2(FloatBits - 1)..(Pow2(FloatBits) - 1) }

\* n consecutive floats from the significand first on.
Ramp(first, n) == [i \in 1..n |-> [m |-> first + i - 1, e |-> 0]]

\* What a layout's _wavelengths, or the wavelength handed to enable(), may
\* be: None, an empty array, or an array of 1..MaxLen floats.
WavelengthInputs ==
    {NoneValue, Array(<<>>)}
        \cup { Array(Ramp(Pow2(FloatBits - 1) + 3, n)) : n \in 1..MaxLen }

\* The redshifts assigned: None, and -1, 0 and 1 in hundredths.
ZValues == {None, Given(-100), Given(0), Given(100)}

\* The titles the combo box may hand over: the catalogue's and one more.
ComboTitles == { UnitsTitles[i] : i \in 1..Len(UnitsTitles) } \cup {"Parsec"}

InitUnits ==
    /\ IdleDialog
    /\ uc \in { NewController(w) : w \in WavelengthInputs }
    /\ conv = NoConversion

\* The redshift_z setter that tells specviz only of a rest-frame redshift.
RedshiftZQuietAtRest(new_z) ==
    /\ uc.calls < MaxOps
    /\ uc' = [uc EXCEPT !.redshift_z = new_z,
                        !.label = LabelFor(new_z),
                        !.slice_label = LabelFor(new_z),
                        !.dispatched =
                            IF IsRest(new_z)
                            THEN Append(@, [z |-> RedshiftPayload,
                                            label |-> LabelFor(new_z)])
                            ELSE @,
                        !.assigned = Append(@, new_z),
                        !.calls = @ + 1,
                        !.raised = "none"]
    /\ UNCHANGED <<foreground, workers, queue, unit, conv>>

\* The redshift_z setter: it stores new_z, sets the text of the controller's
\* label and of the slice controller's, then emits redshift_changed.
RedshiftZ(new_z) ==
    /\ uc.calls < MaxOps
    /\ uc' = [uc EXCEPT !.redshift_z = new_z,
                        !.label = LabelFor(new_z),
                        !.slice_label = LabelFor(new_z),
                        !.dispatched =
                            Append(@, [z |-> RedshiftPayload,
                                       label |-> LabelFor(new_z)]),
                        !.assigned = Append(@, new_z),
                        !.calls = @ + 1,
                        !.raised = "none"]
    /\ UNCHANGED <<foreground, workers, queue, unit, conv>>

\* The operands of the conversion in on_combobox_change, taken from what the
\* controller converted last.
ConversionSourceChained(c) ==
    [wavelengths |-> c.new_wavelengths, units |-> c.new_units]

\* The operands of the conversion in on_combobox_change: the original
\* wavelengths and the original units.
ConversionSource(c) ==
    [wavelengths |-> c.original_wavelengths, units |-> c.original_units]

\* UnitController.on_combobox_change: list.index raises before anything is
\* assigned; otherwise the unit is stored, the wavelengths are converted and
\* stored and, unless they are None, handed to the layout.
OnComboboxChange(new_unit_name) ==
    /\ uc.calls < MaxOps
    /\ LET index == TitleIndex(new_unit_name)
           new_units == Units[index]
           new_wavelengths ==
               ConvertWavelengths(ConversionSource(uc).wavelengths,
                                  ConversionSource(uc).units, new_units)
           called == [uc EXCEPT !.calls = @ + 1,
                                !.titles = Append(@, new_unit_name),
                                !.selected_from = uc.original_wavelengths]
       IN  uc' = IF index = 0
                 THEN [called EXCEPT !.raised = "ValueError"]
                 ELSE IF new_wavelengths.kind = "None"
                 THEN [called EXCEPT !.raised = "none",
                                     !.new_units = new_units,
                                     !.new_wavelengths = new_wavelengths]
                 ELSE [called EXCEPT !.raised = "none",
                                     !.new_units = new_units,
                                     !.new_wavelengths = new_wavelengths,
                                     !.pushed = [called |-> TRUE,
                                                 wavelengths |-> new_wavelengths,
                                                 units |-> new_units],
                                     !.pushes = @ + 1]
    /\ UNCHANGED <<foreground, workers, queue, unit, conv>>

\* UnitController.enable: the original wavelengths and the wcs are replaced.
Enable(wcs, wavelength) ==
    /\ uc.calls < MaxOps
    /\ uc' = [uc EXCEPT !.original_wavelengths = wavelength,
                        !.wcs = wcs,
                        !.calls = @ + 1,
                        !.raised = "none"]
    /\ UNCHANGED <<foreground, workers, queue, unit, conv>>

\* UnitController.get_new_units.
GetNewUnits == uc.new_units

NextUnits ==
    \/ \E new_z \in ZValues : RedshiftZ(new_z)
    \/ \E new_unit_name \in ComboTitles : OnComboboxChange(new_unit_name)
    \/ \E wavelength \in WavelengthInputs : Enable("wcs", wavelength)

UnitSpec == InitUnits /\ [][NextUnits]_vars

\* ------------------------------------------- a conversion there and back

\* The arrays converted: None, the empty array, and the arrays of 1..MaxLen
\* consecutive floats from every float on.
ConvertInputs ==
    {NoneValue, Array(<<>>)} \cup
        UNION { { Array(Ramp(first.m, n)) :
                    n \in { k \in 1..MaxLen : first.m + k - 1 < Pow2(FloatBits) } } :
                  first \in Floats }

UnitNames == { Units[i] : i \in 1..Len(Units) }

InitConvert ==
    /\ IdleDialog
    /\ uc = NoController
    /\ conv \in { [NoConversion EXCEPT !.w = w, !.old_units = u1, !.new_units = u2] :
                    w \in ConvertInputs, u1 \in UnitNames, u2 \in UnitNames }

\* convert_wavelengths(w, old_units, new_units).
ConvertThere ==
    /\ conv.step = 0
    /\ conv' = [conv EXCEPT !.there = ConvertWavelengths(conv.w, conv.old_units,
                                                         conv.new_units),
                            !.step = 1]
    /\ UNCHANGED <<foreground, workers, queue, unit, uc>>

\* convert_wavelengths of the array that came out, back to old_units.
ConvertBack ==
    /\ conv.step = 1
    /\ conv.there.kind = "array"
    /\ conv' = [conv EXCEPT !.back = ConvertWavelengths(conv.there, conv.new_units,
                                                        conv.old_units),
                            !.step = 2]
    /\ UNCHANGED <<foreground, workers, queue, unit, uc>>

NextConvert ==
    \/ ConvertThere
    \/ ConvertBack

ConvertSpec == InitConvert /\ [][NextConvert]_vars

\* ------------------------------------------------------------------ claims

HasFinished(log) == \E i \in 1..Len(log) : log[i].kind = "finished"

\* C1: within one run, once the tracker's abort flag is set it stays set;
\* every tracker call made with the flag set raises and unwinds run(); and a
\* run in which a tracker call was made after the abort request never emits
\* finished.
C1_AbortIsFinal ==
    /\ [][\A t \in Threads :
            tracker[t].abort_flag => tracker'[t].abort_flag]_vars
    /\ [][\A t \in Threads :
            (tracker[t].abort_flag /\ done'[t] # done[t])
                => pc'[t] = "aborted"]_vars
    /\ [](\A t \in Threads : late_calls[t] > 0 => ~HasFinished(emitted[t]))

\* C1 witness: a run that was aborted after it had reported progress.
C1_Witness ==
    \E t \in Threads :
        /\ pc[t] = "aborted"
        /\ late_calls[t] = 1
        /\ Len(emitted[t]) > 0
        /\ tracker[t].abort_flag

\* abort() has been called or is being called before the run's first
\* progress callback.
BeforeFirstCallback(t) ==
    pc[t] = "started" \/ (pc[t] = "iterate" /\ done[t] = 0)

\* C2: an abort requested after start() and before the first progress
\* callback, the worker not yet in run() included, is recorded without an
\* error in the foreground, and the worker then stops at its first progress
\* callback without emitting finished.
C2_EarlyAbortIsRecorded ==
    /\ [][(OnAborted /\ operation_thread # 0
              /\ BeforeFirstCallback(operation_thread))
            => /\ fg_exception' = "none"
               /\ tracker'[operation_thread].abort_flag]_vars
    /\ [](\A t \in Threads :
            (tracker[t].abort_flag /\ late_calls[t] > 0 /\ done[t] = 1)
                => pc[t] = "aborted" /\ ~HasFinished(emitted[t]))

\* C3: abort and completion exclude each other: a run whose abort was taken by
\* on_aborted (its flag set, which on_aborted only does before the dialog is
\* closed by a finished signal) never has on_finished add its result.
C3_AbortExcludesCompletion ==
    \A t \in Threads : tracker[t].abort_flag => added_by[t] = <<>>

\* C4: at most one worker of the coordinator is Running at any moment, and
\* every Running worker is the one on_aborted reaches.
C4_OneRunAtATime ==
    /\ Cardinality({t \in Threads : Running(t)}) <= 1
    /\ \A t \in Threads : Running(t) => operation_thread = t

\* C5: the dataset's components change only in on_finished, and then the
\* worker whose result is added is no longer Running.
C5_DatasetWrittenAfterTermination ==
    [][data' # data
         => (OnFinished /\ ~Running(Head(queue).thread))]_vars

\* C5 as amended: the dataset's components change only in on_finished, taken
\* in the foreground with no worker moving, and then the worker whose result
\* is added has emitted finished, the last statement of its run(): it is
\* returning from run() or has returned.
C5_DatasetWrittenAfterFinishedEmitted ==
    [][data' # data
         => /\ OnFinished
            /\ pc[Head(queue).thread] \in {"return", "finished"}
            /\ pc' = pc]_vars

\* C5 witness: on_finished has added the result of a worker that has not yet
\* returned from run().
C5_Witness ==
    \E t \in Threads : added_by[t] # <<>> /\ pc[t] = "return"

\* C6: the names of the dataset's components are pairwise different, whatever
\* the dataset held at first and whichever runs completed.
C6_UniqueNames ==
    \A i, j \in 1..Len(data) : i # j => data[i] # data[j]

\* The name the k-th consecutive result of operand cid is to get.
ExpectedName(cid, k) ==
    IF k = 1 THEN cid \o <<SmoothedLabel>>
    ELSE cid \o <<SmoothedLabel, " ">> \o Digits(k - 1)

\* C7: on a dataset that held no name containing "X [Spectrally Smoothed]",
\* the first completed run with operand X adds exactly that name and the k-th
\* consecutive one adds it with the suffix k-1.
C7_NamingSequence ==
    \A k \in 1..Len(runlog) :
        LET cid == runlog[1].operand IN
        ( /\ \A i \in 1..n0 : ~Contains(data[i], BaseName(cid))
          /\ \A j \in 1..k : runlog[j].operand = cid )
            => data[n0 + k] = ExpectedName(cid, k)

\* C8: a tracker call with an argument v, v = 0 included, sets current to v; a
\* call without one adds 1, so that after k such calls on a new tracker
\* current = k and percent_value = k / total.
C8_TrackerAdvance ==
    unit.calls > 0 =>
        /\ unit.arg # None => unit.tr.current = unit.arg[1]
        /\ unit.arg = None => unit.tr.current = unit.before + 1
        /\ unit.plain =>
             /\ unit.tr.current = unit.calls
             /\ SameRatio(PercentValue(unit.tr), <<unit.calls, unit.tr.total>>)

\* C9: a worker emits status signals carrying 1/total, 2/total, ... in this
\* order, at most total of them, and finished only once, after the status
\* signal carrying total/total = 1 and as its last signal; a run that went
\* through run() to its end has emitted exactly total status signals and then
\* finished.
C9_ProgressThenFinished ==
    \A t \in Threads :
        LET log == emitted[t]
            total == cube[t].total
        IN  /\ Len(log) <= total + 1
            /\ \A i \in 1..Len(log) :
                 IF i <= total
                 THEN /\ log[i].kind = "status"
                      /\ SameRatio(<<log[i].num, log[i].den>>, <<i, total>>)
                 ELSE log[i].kind = "finished"
            /\ pc[t] \in {"return", "finished"} => Len(log) = total + 1

\* C9 witness: a run over more than one element that was never asked to abort
\* has returned, all its signals emitted.
C9_Witness ==
    \E t \in Threads :
        /\ pc[t] = "finished"
        /\ cube[t].total > 1
        /\ ~tracker[t].abort_flag
        /\ Len(emitted[t]) = cube[t].total + 1

\* C10: once the abort flag of a run is set, the worker goes through at most
\* one more element: at most one tracker call is made with the flag set, and
\* that call ends the run.
C10_AbortLatency ==
    \A t \in Threads :
        /\ late_calls[t] <= 1
        /\ late_calls[t] = 1 => pc[t] = "aborted"

\* C10 witness: the abort came after the first element was reported, and the
\* worker went through the second element before it stopped.
C10_Witness ==
    \E t \in Threads :
        /\ late_calls[t] = 1
        /\ done[t] = 2
        /\ pc[t] = "aborted"

\* C11: on_aborted sets the abort flag of the current run's tracker, puts the
\* progress bar at 0 and leaves the dialog open; the tracker a run creates is
\* new (current 0, flag clear), and a run's flag is only ever set by an
\* on_aborted taken while it is the current run, so that a retried run is
\* not aborted by the request made for the earlier one.
C11_AbortThenRetry ==
    /\ [][(OnAborted /\ operation_thread # 0)
            => /\ tracker'[operation_thread].abort_flag
               /\ progress_value' = 0
               /\ ~closed']_vars
    /\ [][\A t \in Threads :
            (~tracker[t].exists /\ tracker'[t].exists)
                => tracker'[t].current = 0 /\ ~tracker'[t].abort_flag]_vars
    /\ [][\A t \in Threads :
            (~tracker[t].abort_flag /\ tracker'[t].abort_flag)
                => operation_thread = t]_vars

\* C12: a run whose operation function raised, like a run that was aborted,
\* emits no finished signal and has no result added; only a run that went
\* through run() carries a result; and as long as no run's result was added
\* the dataset holds its first components and the dialog is open.
C12_FailedRunLeavesNothing ==
    /\ \A t \in Threads :
         pc[t] \in {"failed", "aborted"}
            => /\ ~HasFinished(emitted[t])
               /\ added_by[t] = <<>>
               /\ \A i \in 1..Len(queue) : queue[i].thread # t
                                            \/ queue[i].kind # "finished"
    /\ \A t \in Threads :
         added_by[t] # <<>> => pc[t] \in {"return", "finished"}
    /\ (\A t \in Threads : added_by[t] = <<>>)
            => data = SubSeq(data, 1, n0) /\ Len(data) = n0 /\ ~closed

\* C12 witness: the operation function raised after the run had reported
\* progress; nothing was added and the dialog is open.
C12_Witness ==
    \E t \in Threads :
        /\ pc[t] = "failed"
        /\ done[t] >= 1
        /\ ~tracker[t].abort_flag
        /\ Len(data) = n0
        /\ ~closed

\* s begins with pre.
StartsWith(s, pre) ==
    Len(pre) <= Len(s) /\ \A i \in 1..Len(pre) : s[i] = pre[i]

\* C18: the component a run's result becomes is named after the component
\* that was the operand when the run was started, "A [Spectrally Smoothed]"
\* with or without a counter, whatever was selected while it ran.
C18_NamedAfterOperand ==
    \A t \in Threads :
        added_by[t] # <<>> => StartsWith(added_by[t], BaseName(cube[t].operand))

\* on_aborted has taken the abort of the current run and accept() has not
\* been called since: accept() is what shows the progress bar again.
AbortedAndWaiting ==
    /\ operation_thread # 0
    /\ tracker[operation_thread].abort_flag
    /\ ~progress_visible

\* C19: from the reset of on_aborted until the next accept() the progress bar
\* stays at 0: no status signal of the aborted run is applied after the reset.
C19_BarStaysAtZero ==
    AbortedAndWaiting => progress_value = 0


\* The last redshift assigned through the redshift_z setter.
LastAssigned == uc.assigned[Len(uc.assigned)]

\* C13: after any sequence of assignments to redshift_z the label reads
\* 'Rest Wavelength' exactly when the last value assigned is not None and
\* greater than 0, and 'Obs Wavelength' otherwise; the slice controller's
\* wavelength_label equals it; and redshift_z returns the last value assigned.
C13_RedshiftLabel ==
    uc.assigned # <<>> =>
        /\ (uc.label = "Rest Wavelength")
               <=> (LastAssigned # None /\ LastAssigned[1] > 0)
        /\ (uc.label = "Obs Wavelength")
               <=> (LastAssigned = None \/ LastAssigned[1] <= 0)
        /\ uc.slice_label = uc.label
        /\ uc.redshift_z = LastAssigned

\* A redshift of 1 was assigned and then a redshift of 0: the label is back
\* at 'Obs Wavelength'.
C13_Witness ==
    /\ Len(uc.assigned) = 2
    /\ uc.assigned[1] = Given(100)
    /\ uc.assigned[2] = Given(0)
    /\ uc.label = "Obs Wavelength"
    /\ uc.slice_label = "Obs Wavelength"

\* C14: absent wavelengths are a no-op: with the original wavelengths absent
\* on_combobox_change hands nothing to the layout, and set_wavelengths is only
\* ever called with a non-empty converted array.
C14_AbsentWavelengthsPushNothing ==
    /\ (uc.titles # <<>> /\ uc.selected_from.kind = "None" /\ uc.pushes > 0)
           => uc.pushed.wavelengths # FalseValue
    /\ uc.pushed.called =>
           /\ uc.pushed.wavelengths.kind = "array"
           /\ uc.pushed.wavelengths.values # <<>>

\* C15: on_combobox_change with a title that is not in the catalogue raises
\* and leaves get_new_units, the stored converted wavelengths and what the
\* layout holds as they were.
C15_UnknownTitleRaises ==
    [][(/\ Len(uc'.titles) = Len(uc.titles) + 1
        /\ uc'.titles[Len(uc'.titles)] \notin
               {"Meter", "Centimeter", "Millimeter", "Micrometer",
                "Nanometer", "Angstrom"})
       => /\ uc'.raised = "ValueError"
          /\ uc'.new_units = uc.new_units
          /\ uc'.new_wavelengths = uc.new_wavelengths
          /\ uc'.pushed = uc.pushed
          /\ uc'.pushes = uc.pushes]_vars

\* Nanometer was selected, then a title outside the catalogue: the call
\* raised and the nanometres are still there.
C15_Witness ==
    /\ uc.titles = <<"Nanometer", "Parsec">>
    /\ uc.raised = "ValueError"
    /\ uc.new_units = "nm"
    /\ uc.pushed.units = "nm"
    /\ uc.pushed.wavelengths.values # <<>>

\* The floats a and b are at most k units in the last place of b apart.
WithinUlps(a, b, k) ==
    LET low == IF a.e < b.e THEN a.e ELSE b.e
    IN  /\ a.e - low <= 2
        /\ b.e - low <= 2
        /\ LET x == a.m * Pow2(a.e - low)
               y == b.m * Pow2(b.e - low)
           IN  (IF x < y THEN y - x ELSE x - y) <= k * Pow2(b.e - low)

\* C16, as the specification states it: converting a non-empty array from
\* u1 to u2 and the result back to u1 gives the array again, element by
\* element.
C16_RoundTripExact ==
    (conv.step = 2 /\ conv.w.values # <<>>) => conv.back.values = conv.w.values

\* C16: converting a non-empty array from u1 to u2 and the result back to u1
\* gives an array of the same length whose every element is, in its place,
\* within 4 units in the last place of the element it came from.
C16_RoundTripWithinUlps ==
    (conv.step = 2 /\ conv.w.values # <<>>) =>
        /\ conv.back.kind = "array"
        /\ Len(conv.back.values) = Len(conv.w.values)
        /\ \A i \in 1..Len(conv.w.values) :
               WithinUlps(conv.back.values[i], conv.w.values[i], 4)

\* An array of two elements went from centimetres to Angstrom and back and
\* did not come back bit for bit.
C16_Witness ==
    /\ conv.step = 2
    /\ conv.old_units = "cm"
    /\ conv.new_units = "AA"
    /\ Len(conv.w.values) = 2
    /\ conv.back.values # conv.w.values

C20_SelectionIsPathIndependent ==
    [][Len(uc'.titles) = Len(uc.titles) + 1 =>
          /\ uc'.original_wavelengths = uc.original_wavelengths
          /\ uc.original_units = "m"
          /\ uc'.original_units = "m"
          /\ uc'.raised = "none" =>
                LET new_units == Units[TitleIndex(uc'.titles[Len(uc'.titles)])]
                    first == ConvertWavelengths(uc.original_wavelengths, "m",
                                                new_units)
                IN  /\ uc'.new_units = new_units
                    /\ uc'.new_wavelengths = first
                    /\ uc'.pushed = [called |-> TRUE, wavelengths |-> first,
                                     units |-> new_units]]_vars

\* Angstrom was selected and then Centimeter, and the layout holds a
\* non-empty array in centimetres.
C20_Witness ==
    /\ uc.titles = <<"Angstrom", "Centimeter">>
    /\ uc.calls = 2
    /\ uc.pushes = 2
    /\ uc.pushed.units = "cm"
    /\ uc.pushed.wavelengths.values # <<>>
    /\ GetNewUnits = "cm"

=============================================================================
